---------------------------- MODULE Spec2Model ----------------------------
(***************************************************************************)
(* Model of botfair: the staking math (betfair/betting.py), the Betfair    *)
(* API wrapper (betfair/__init__.py) and the bot's login / entry point     *)
(* (bot/__init__.py).                                                      *)
(*                                                                         *)
(* Python floats are modelled as radix-10 floating point numbers           *)
(* <<m, e>> (value m * 10^e) with Digits significant digits; every         *)
(* arithmetic operation computes the exact result and rounds it to         *)
(* nearest, ties to even, as IEEE-754 does with 53 significant bits.       *)
(***************************************************************************)
EXTENDS Integers, Sequences, FiniteSets, TLC

VARIABLES
    call,       \* betting: the pending call [fn, stake, proba, odds, rate, fraction, option]
    result,     \* betting: what the call did: [exc, msg, value], or NoResult before it ran
    mode,       \* facade: the Betfair method being driven: "markets", "books" or "place_bet"
    now,        \* facade: datetime.now(), in days
    gen,        \* facade: the frame of the markets() generator
    yielded,    \* facade: the latest yield of markets(): <<>> or <<[item, mkt, at]>>
    pending,    \* facade: the market books() has pulled and not yet processed: <<>> or <<item>>
    last,       \* facade: what books() did with the market it pulled last
    bstate,     \* facade: "running", or "error" once an exception left the generator
    bet,        \* facade: the arguments of the place_bet call
    sent,       \* facade: the place_orders requests the venue has received
    betResult,  \* facade: what place_bet did: [exc, msg, record]
    variant,    \* login: which login runs: "betfair" (betfair.login) or "bot" (bot.login)
    creds,      \* login: the certificate and key strings passed in
    lpc,        \* login: where the call is
    fs,         \* login: the file system under the temp directory: path -> content
    session,    \* login: the API client: [certs, logged_in]
    failedAt,   \* login: the step that raised, "" if none
    loginSaw,   \* login: the file system as the API login request saw it
    lastCall,   \* login: the latest API call made on the returned session
    ncalls      \* login: API calls made on the returned session

varsBetting == <<call, result>>
varsFacade == <<mode, now, gen, yielded, pending, last, bstate, bet, sent, betResult>>
varsLogin == <<variant, creds, lpc, fs, session, failedAt, loginSaw, lastCall, ncalls>>

(***************************************************************************)
(* Floating point arithmetic                                               *)
(***************************************************************************)
\* Significant decimal digits kept by every float operation.
Digits == 3

RECURSIVE Pow10(_)
Pow10(k) == IF k <= 0 THEN 1 ELSE 10 * Pow10(k - 1)

Abs(n) == IF n < 0 THEN -n ELSE n

Min(a, b) == IF a < b THEN a ELSE b

RECURSIVE NumDigits(_)
NumDigits(n) == IF n < 10 THEN 1 ELSE 1 + NumDigits(n \div 10)

\* Canonical form: no trailing zero in the mantissa, zero is <<0, 0>>.
RECURSIVE Norm(_, _)
Norm(m, e) ==
    IF m = 0 THEN <<0, 0>>
    ELSE IF m % 10 = 0 THEN Norm(m \div 10, e + 1)
    ELSE <<m, e>>

\* Round the non-negative exact value n * 10^e (plus a non-zero tail below the
\* last digit of n when sticky) to Digits significant digits, ties to even.
RoundSig(n, e, sticky) ==
    IF n < Pow10(Digits) THEN Norm(n, e)
    ELSE LET k    == NumDigits(n) - Digits
             q    == n \div Pow10(k)
             r    == n % Pow10(k)
             half == 5 * Pow10(k - 1)
             up   == \/ r > half
                     \/ r = half /\ sticky
                     \/ r = half /\ ~sticky /\ q % 2 = 1
         IN  Norm(IF up THEN q + 1 ELSE q, e + k)

FNeg(a) == <<-a[1], a[2]>>

FRound(n, e, sticky) ==
    IF n < 0 THEN FNeg(RoundSig(-n, e, sticky)) ELSE RoundSig(n, e, sticky)

\* The integer a / 10^e, for e no larger than a's exponent.
Aligned(a, e) == a[1] * Pow10(a[2] - e)

FAdd(a, b) ==
    LET e == Min(a[2], b[2])
    IN  FRound(Aligned(a, e) + Aligned(b, e), e, FALSE)

FSub(a, b) == FAdd(a, FNeg(b))

FMul(a, b) == FRound(a[1] * b[1], a[2] + b[2], FALSE)

\* a / b for b # 0: both mantissas are scaled to Digits digits, the quotient is
\* taken with Digits + 1 further digits and the remainder is the sticky tail.
FDiv(a, b) ==
    IF a[1] = 0 THEN <<0, 0>>
    ELSE LET ka  == Digits - NumDigits(Abs(a[1]))
             kb  == Digits - NumDigits(Abs(b[1]))
             A   == Abs(a[1]) * Pow10(ka)
             B   == Abs(b[1]) * Pow10(kb)
             N   == A * Pow10(Digits + 1)
             e   == (a[2] - ka) - (Digits + 1) - (b[2] - kb)
             mag == RoundSig(N \div B, e, N % B # 0)
         IN  IF (a[1] < 0) # (b[1] < 0) THEN FNeg(mag) ELSE mag

FLt(a, b) == LET e == Min(a[2], b[2]) IN Aligned(a, e) < Aligned(b, e)
FGt(a, b) == FLt(b, a)
FLe(a, b) == ~FLt(b, a)

Zero == <<0, 0>>
One  == <<1, 0>>

(***************************************************************************)
(* Call results                                                            *)
(***************************************************************************)
NoResult == [exc |-> "pending", msg |-> "", value |-> Zero]
Return(v) == [exc |-> "none", msg |-> "", value |-> v]
Raise(t, m) == [exc |-> t, msg |-> m, value |-> Zero]

\* No staking-math call in progress.
NoCall ==
    [fn |-> "", stake |-> Zero, proba |-> Zero, odds |-> Zero, rate |-> Zero,
     fraction |-> Zero, option |-> ""]

BettingIdle == call = NoCall /\ result = NoResult

(***************************************************************************)
(* betfair/betting.py                                                      *)
(***************************************************************************)
\* kelly_criterion without the upper bounds of its range checks.
kelly_criterion_NoUpper(proba, odds, fraction) ==
    IF FLt(proba, Zero)
    THEN Raise("ValueError", "Event probability must be in between 0 and 1.")
    ELSE IF FLe(odds, One)
    THEN Raise("ValueError", "Odds must be greater than 1.")
    ELSE IF FLt(fraction, Zero)
    THEN Raise("ValueError", "Kelly's fraction must be in between 0 and 1.")
    ELSE Return(FDiv(FMul(fraction, FSub(FMul(odds, proba), FSub(One, proba))), odds))

\* kelly_criterion with the fraction applied to the winning term only.
kelly_criterion_Misplaced(proba, odds, fraction) ==
    IF FLt(proba, Zero) \/ FGt(proba, One)
    THEN Raise("ValueError", "Event probability must be in between 0 and 1.")
    ELSE IF FLe(odds, One)
    THEN Raise("ValueError", "Odds must be greater than 1.")
    ELSE IF FLt(fraction, Zero) \/ FGt(fraction, One)
    THEN Raise("ValueError", "Kelly's fraction must be in between 0 and 1.")
    ELSE Return(FDiv(FSub(FMul(fraction, FMul(odds, proba)), FSub(One, proba)), odds))

kelly_criterion(proba, odds, fraction) ==
    IF FLt(proba, Zero) \/ FGt(proba, One)
    THEN Raise("ValueError", "Event probability must be in between 0 and 1.")
    ELSE IF FLe(odds, One)
    THEN Raise("ValueError", "Odds must be greater than 1.")
    ELSE IF FLt(fraction, Zero) \/ FGt(fraction, One)
    THEN Raise("ValueError", "Kelly's fraction must be in between 0 and 1.")
    ELSE Return(FDiv(FMul(fraction, FSub(FMul(odds, proba), FSub(One, proba))), odds))

\* _ev without its probability check.
_ev_Unchecked(proba, profit, loss) ==
    Return(FSub(FMul(proba, profit), FMul(FSub(One, proba), loss)))

_ev(proba, profit, loss) ==
    IF FLt(proba, Zero) \/ FGt(proba, One)
    THEN Raise("ValueError", "Event probability must be in between 0 and 1.")
    ELSE Return(FSub(FMul(proba, profit), FMul(FSub(One, proba), loss)))

_ev_back(stake, proba, odds, rate) ==
    _ev(proba, FMul(FMul(stake, FSub(odds, One)), FSub(One, rate)), stake)

\* _ev_lay as a copy of _ev_back: the rake taken from the liability side.
_ev_lay_AsBack(stake, proba, odds, rate) ==
    _ev(proba, FMul(FMul(stake, FSub(odds, One)), FSub(One, rate)), stake)

_ev_lay(stake, proba, odds, rate) ==
    _ev(proba, FMul(stake, FSub(One, rate)), FMul(stake, FSub(odds, One)))

\* str.lower() on the option strings the model draws.
Lower(s) == CASE s = "BACK" -> "back" [] s = "Lay" -> "lay" [] OTHER -> s

\* "back" in s, on the (lower-cased) option strings the model draws.
ContainsBack(s) == s \in {"back", "backlay"}

expected_value(stake, proba, odds, rate, option) ==
    IF option \notin {"back", "lay"}
    THEN Raise("ValueError", "Invalid option. Accepted values are 'back' and 'lay'")
    ELSE IF FLe(odds, One)
    THEN Raise("ValueError", "Odds must be greater than 1.")
    ELSE IF FLt(rate, Zero) \/ FGt(rate, One)
    THEN Raise("ValueError", "Rate must be in between 0 and 1.")
    ELSE IF ContainsBack(Lower(option))
    THEN _ev_back(stake, proba, odds, rate)
    ELSE _ev_lay(stake, proba, odds, rate)



(***************************************************************************)
(* betfair/__init__.py: the venue, as the wrapper sees it                   *)
(***************************************************************************)
\* Latest value of the clock, in days.
MaxNow == 2
\* Most runners in a market book.
MaxRunners == 1

MAX_RESULTS_DEFAULT == 1000
MAX_DAYS_LEFT_DEFAULT == 7
MAX_MARKETS_DEFAULT == 1000

\* int() on the competition ids the venue uses.
ToInt(s) == CASE s = "1" -> 1 [] s = "2" -> 2 [] s = "3" -> 3

\* The markets the venue may list; market_time in days, base rate in percent.
Universe ==
    { [market_id |-> "1.101", competition_id |-> "1", type |-> "MATCH_ODDS",
       market_time |-> 5, market_base_rate |-> <<5, 0>>],
      [market_id |-> "1.102", competition_id |-> "1", type |-> "MATCH_ODDS",
       market_time |-> 8, market_base_rate |-> <<5, 0>>],
      [market_id |-> "1.103", competition_id |-> "1", type |-> "OVER_UNDER_25",
       market_time |-> 5, market_base_rate |-> <<5, 0>>],
      [market_id |-> "1.201", competition_id |-> "2", type |-> "MATCH_ODDS",
       market_time |-> 3, market_base_rate |-> <<2, 0>>],
      [market_id |-> "1.202", competition_id |-> "2", type |-> "MATCH_ODDS",
       market_time |-> 9, market_base_rate |-> <<2, 0>>],
      [market_id |-> "1.301", competition_id |-> "3", type |-> "MATCH_ODDS",
       market_time |-> 2, market_base_rate |-> <<5, 0>>] }

\* betfairlightweight.filters.market_filter(market_type_codes, competition_ids)
market_filter(market_type_codes, competition_ids) ==
    [market_type_codes |-> market_type_codes, competition_ids |-> competition_ids]

Matches(m, f) ==
    /\ m.type \in f.market_type_codes
    /\ ToInt(m.competition_id) \in f.competition_ids

\* The sequences that list every market of S once, in any order.
InAnyOrder(S) ==
    { q \in [1..Cardinality(S) -> S] : \A i, j \in 1..Cardinality(S) : q[i] = q[j] => i = j }

\* list_market_catalogue(filter, max_results): any of the listed markets that
\* match the filter, at most max_results of them, in the venue's order.
list_market_catalogue(f, max_results) ==
    UNION { InAnyOrder(S) : S \in { T \in SUBSET { m \in Universe : Matches(m, f) } :
                                        Cardinality(T) <= max_results } }

\* The best offers of one side of a runner: none, or the best two, best first.
BackOffers == {<<>>,
               <<[price |-> <<25, -1>>, size |-> 10], [price |-> <<24, -1>>, size |-> 40]>>}
LayOffers  == {<<>>,
               <<[price |-> <<26, -1>>, size |-> 20], [price |-> <<27, -1>>, size |-> 30]>>}

Runner(i, back, lay) ==
    [selection_id |-> 10 + i, available_to_back |-> back, available_to_lay |-> lay]

RunnerLists ==
    UNION { { [i \in 1..n |-> Runner(i, ex[i][1], ex[i][2])] :
                ex \in [1..n -> BackOffers \X LayOffers] } : n \in 1..MaxRunners }

MarketBooks ==
    [status : {"OPEN", "SUSPENDED", "CLOSED"}, inplay : BOOLEAN, runners : RunnerLists]

\* list_market_book(market_ids=[id]): the call raises (APIError), or returns
\* the list of books: the book of the market, or no book.
list_market_book ==
    {[raised |-> TRUE, books |-> <<>>], [raised |-> FALSE, books |-> <<>>]}
        \cup { [raised |-> FALSE, books |-> <<b>>] : b \in MarketBooks }

(***************************************************************************)
(* Betfair.markets                                                         *)
(***************************************************************************)
\* The generator's frame when markets(competition_ids, max_results, max_days_left)
\* is called: no catalogue fetched yet.
markets(competition_ids, max_results, max_days_left) ==
    [comps |-> competition_ids, ci |-> 0, cat |-> <<>>, mi |-> 0,
     max_results |-> max_results, days |-> max_days_left]

\* The dict markets() yields for a catalogue entry.
MarketItem(mkt) ==
    [market_id        |-> mkt.market_id,
     competition_id   |-> ToInt(mkt.competition_id),
     market_base_rate |-> FDiv(mkt.market_base_rate, <<1, 2>>),
     market_time      |-> mkt.market_time]

\* The date check with the comparison reversed.
PastLimit_Reversed(mkt, days) == mkt.market_time < now + days

\* "if mkt.description.market_time > lim: continue", lim = now + max_days_left.
PastLimit(mkt, days) == mkt.market_time > now + days

MarketsExhausted == gen.ci = Len(gen.comps) /\ gen.mi = Len(gen.cat)

Driving == mode \in {"markets", "books"} /\ bstate = "running" /\ pending = <<>>

\* for competition_id in competition_ids: ... list_market_catalogue(...)
MarketsFetch ==
    /\ Driving
    /\ gen.mi = Len(gen.cat)
    /\ gen.ci < Len(gen.comps)
    /\ \E cat \in list_market_catalogue(
                     market_filter({"MATCH_ODDS"}, {gen.comps[gen.ci + 1]}),
                     gen.max_results) :
          gen' = [gen EXCEPT !.ci = @ + 1, !.cat = cat, !.mi = 0]
    /\ UNCHANGED <<mode, now, yielded, pending, last, bstate, bet, sent, betResult, varsBetting, varsLogin>>

\* for mkt in market_catalogues: the date check, then continue or yield.
MarketsCheck ==
    /\ Driving
    /\ gen.mi < Len(gen.cat)
    /\ LET mkt == gen.cat[gen.mi + 1]
       IN  /\ gen' = [gen EXCEPT !.mi = @ + 1]
           /\ IF PastLimit(mkt, gen.days)
              THEN UNCHANGED <<yielded, pending>>
              ELSE /\ yielded' = <<[item |-> MarketItem(mkt), mkt |-> mkt, at |-> now]>>
                   /\ pending' = IF mode = "books" THEN <<MarketItem(mkt)>> ELSE <<>>
    /\ UNCHANGED <<mode, now, last, bstate, bet, sent, betResult, varsBetting, varsLogin>>

\* Time passes between the calls.
Tick ==
    /\ mode \in {"markets", "books"}
    /\ now < MaxNow
    /\ now' = now + 1
    /\ UNCHANGED <<mode, gen, yielded, pending, last, bstate, bet, sent, betResult, varsBetting, varsLogin>>

(***************************************************************************)
(* Betfair.books                                                           *)
(***************************************************************************)
BookEntry(market, r, option, offer) ==
    [market_id      |-> market.market_id,
     market_time    |-> market.market_time,
     competition_id |-> market.competition_id,
     selection_id   |-> r.selection_id,
     option         |-> option,
     price          |-> offer.price,
     size           |-> offer.size,
     market_rate    |-> market.market_base_rate]

\* [... for r in runners if r.ex.available_to_lay], taking available_to_back[0]:
\* the entries when every subscript is in range.
RECURSIVE BackEntries(_, _)
BackEntries(market, runners) ==
    IF runners = <<>> THEN <<>>
    ELSE LET r == Head(runners)
         IN  (IF r.available_to_lay # <<>>
              THEN <<BookEntry(market, r, "back", r.available_to_back[1])>>
              ELSE <<>>) \o BackEntries(market, Tail(runners))

\* The subscript available_to_back[0] of the back comprehension raises IndexError.
BackRaises(runners) ==
    \E i \in 1..Len(runners) :
        runners[i].available_to_lay # <<>> /\ runners[i].available_to_back = <<>>

\* [... for r in runners if r.ex.available_to_lay], taking available_to_lay[0].
RECURSIVE LayEntries(_, _)
LayEntries(market, runners) ==
    IF runners = <<>> THEN <<>>
    ELSE LET r == Head(runners)
         IN  (IF r.available_to_lay # <<>>
              THEN <<BookEntry(market, r, "lay", r.available_to_lay[1])>>
              ELSE <<>>) \o LayEntries(market, Tail(runners))

\* The loop body of books() without the in-play half of its status check.
BooksBodyResult_NoInplay(market, resp) ==
    IF resp.raised
    THEN [outcome |-> "APIError", entries |-> <<>>]
    ELSE IF resp.books = <<>>
    THEN [outcome |-> "IndexError", entries |-> <<>>]
    ELSE LET market_book == resp.books[1]
         IN  IF market_book.status # "OPEN"
             THEN [outcome |-> "continue", entries |-> <<>>]
             ELSE IF BackRaises(market_book.runners)
             THEN [outcome |-> "IndexError", entries |-> <<>>]
             ELSE LET back == BackEntries(market, market_book.runners)
                      lay  == LayEntries(market, market_book.runners)
                  IN  IF Len(back \o lay) > 0
                      THEN [outcome |-> "yield", entries |-> back \o lay]
                      ELSE [outcome |-> "empty", entries |-> <<>>]

\* The loop body of books() guarding the subscript [0]: a market for which the
\* venue returns no book is passed over.
BooksBodyResult_SkipNoBook(market, resp) ==
    IF resp.raised
    THEN [outcome |-> "APIError", entries |-> <<>>]
    ELSE IF resp.books = <<>>
    THEN [outcome |-> "continue", entries |-> <<>>]
    ELSE LET market_book == resp.books[1]
         IN  IF market_book.status # "OPEN" \/ market_book.inplay
             THEN [outcome |-> "continue", entries |-> <<>>]
             ELSE IF BackRaises(market_book.runners)
             THEN [outcome |-> "IndexError", entries |-> <<>>]
             ELSE LET back == BackEntries(market, market_book.runners)
                      lay  == LayEntries(market, market_book.runners)
                  IN  IF Len(back \o lay) > 0
                      THEN [outcome |-> "yield", entries |-> back \o lay]
                      ELSE [outcome |-> "empty", entries |-> <<>>]

\* One pass of the loop body of books() for `market`, given the venue's answer:
\* what happened, and the batch yielded (if any).
BooksBodyResult(market, resp) ==
    IF resp.raised
    THEN [outcome |-> "APIError", entries |-> <<>>]
    ELSE IF resp.books = <<>>
    THEN [outcome |-> "IndexError", entries |-> <<>>]
    ELSE LET market_book == resp.books[1]
         IN  IF market_book.status # "OPEN" \/ market_book.inplay
             THEN [outcome |-> "continue", entries |-> <<>>]
             ELSE IF BackRaises(market_book.runners)
             THEN [outcome |-> "IndexError", entries |-> <<>>]
             ELSE LET back == BackEntries(market, market_book.runners)
                      lay  == LayEntries(market, market_book.runners)
                  IN  IF Len(back \o lay) > 0
                      THEN [outcome |-> "yield", entries |-> back \o lay]
                      ELSE [outcome |-> "empty", entries |-> <<>>]

\* No market pulled yet.
NoPass == [market |-> <<>>, raised |-> FALSE, book |-> <<>>, outcome |-> "", entries |-> <<>>]

\* books(competition_ids, max_markets) iterates markets(competition_ids, max_markets).
books(competition_ids, max_markets) ==
    markets(competition_ids, max_markets, MAX_DAYS_LEFT_DEFAULT)

\* The body of "for market in self.markets(...)" for the market just pulled.
BooksBody ==
    /\ mode = "books"
    /\ bstate = "running"
    /\ pending # <<>>
    /\ \E resp \in list_market_book :
          LET res == BooksBodyResult(pending[1], resp)
          IN  /\ last' = [market  |-> pending[1],
                           raised  |-> resp.raised,
                           book    |-> resp.books,
                           outcome |-> res.outcome,
                           entries |-> res.entries]
              /\ bstate' = IF res.outcome \in {"IndexError", "APIError"}
                           THEN "error" ELSE "running"
    /\ pending' = <<>>
    /\ UNCHANGED <<mode, now, gen, yielded, bet, sent, betResult, varsBetting, varsLogin>>

(***************************************************************************)
(* Betfair.place_bet                                                       *)
(***************************************************************************)
\* round(stake, 2): to two decimals, ties to even.
Round2(x) ==
    IF x[2] >= -2 THEN x
    ELSE LET k    == -2 - x[2]
             n    == Abs(x[1])
             q    == n \div Pow10(k)
             r    == n % Pow10(k)
             half == 5 * Pow10(k - 1)
             up   == r > half \/ (r = half /\ q % 2 = 1)
             mag  == Norm(IF up THEN q + 1 ELSE q, -2)
         IN  IF x[1] < 0 THEN FNeg(mag) ELSE mag

\* str.upper() on the option strings.
Upper(s) == CASE s = "back" -> "BACK" [] s = "lay" -> "LAY" [] OTHER -> s

\* datetime.isoformat()
IsoFormat(t) == <<"iso", t>>

limit_order(size, price, persistence_type) ==
    [size |-> size, price |-> price, persistenceType |-> persistence_type]

place_instruction(order_type, selection_id, side, order) ==
    [orderType |-> order_type, selectionId |-> selection_id, side |-> side,
     limitOrder |-> order]

InstructionReports ==
    { [bet_id |-> "b1", placed_date |-> 1, size_matched |-> <<5, 0>>, status |-> "SUCCESS"],
      [bet_id |-> "b2", placed_date |-> 2, size_matched |-> Zero, status |-> "SUCCESS"],
      [bet_id |-> "", placed_date |-> 0, size_matched |-> Zero, status |-> "FAILURE"] }

\* What place_orders may answer.
place_orders ==
    [status : {"SUCCESS", "FAILURE", "PROCESSED_WITH_ERRORS", "TIMEOUT"},
     error_code : {"", "INSUFFICIENT_FUNDS", "MARKET_SUSPENDED"},
     place_instruction_reports :
        {<<>>} \cup { <<r>> : r \in InstructionReports }
               \cup { <<r, q>> : r \in {x \in InstructionReports : x.bet_id = "b1"},
                                 q \in {x \in InstructionReports : x.bet_id = "b2"} }]

NoRecord ==
    [bet_id |-> "", placed_date |-> <<"iso", 0>>, average_price_matched |-> <<"iso", 0>>,
     size_matched |-> Zero, status |-> ""]

\* place_bet without its check of the response status.
place_bet_NoStatusCheck(res) ==
    IF res.place_instruction_reports = <<>>
    THEN [exc |-> "IndexError", msg |-> <<>>, record |-> NoRecord]
    ELSE LET report == res.place_instruction_reports[1]
         IN  [exc |-> "none", msg |-> <<>>,
              record |-> [bet_id |-> report.bet_id,
                          placed_date |-> IsoFormat(report.placed_date),
                          average_price_matched |-> IsoFormat(report.placed_date),
                          size_matched |-> report.size_matched,
                          status |-> report.status]]

\* place_bet, from the venue's answer on.
place_bet(res) ==
    IF res.status = "FAILURE"
    THEN [exc |-> "ValueError", msg |-> <<res.status, res.error_code>>, record |-> NoRecord]
    ELSE IF res.place_instruction_reports = <<>>
    THEN [exc |-> "IndexError", msg |-> <<>>, record |-> NoRecord]
    ELSE LET report == res.place_instruction_reports[1]
         IN  [exc |-> "none", msg |-> <<>>,
              record |-> [bet_id |-> report.bet_id,
                          placed_date |-> IsoFormat(report.placed_date),
                          average_price_matched |-> IsoFormat(report.placed_date),
                          size_matched |-> report.size_matched,
                          status |-> report.status]]

NoBetResult == [exc |-> "pending", msg |-> <<>>, record |-> NoRecord]

PlaceBet ==
    /\ mode = "place_bet"
    /\ betResult = NoBetResult
    /\ \E res \in place_orders :
          /\ sent' = Append(sent,
                [market_id |-> bet.market_id,
                 instructions |->
                    <<place_instruction("LIMIT", bet.selection_id, Upper(bet.option),
                                        limit_order(Round2(bet.stake), bet.price, "LAPSE"))>>,
                 response |-> res])
          /\ betResult' = place_bet(res)
    /\ UNCHANGED <<mode, now, gen, yielded, pending, last, bstate, bet, varsBetting, varsLogin>>


NoBet == [market_id |-> "", selection_id |-> 0, stake |-> Zero, price |-> Zero, option |-> ""]

FacadeIdle ==
    /\ mode = "" /\ now = 0 /\ yielded = <<>> /\ pending = <<>> /\ last = NoPass
    /\ bstate = "running" /\ sent = <<>> /\ betResult = NoBetResult /\ bet = NoBet
    /\ gen = markets(<<>>, MAX_RESULTS_DEFAULT, MAX_DAYS_LEFT_DEFAULT)

(***************************************************************************)
(* login (betfair/__init__.py and bot/__init__.py)                         *)
(***************************************************************************)
\* Most API calls made on a session after login returned it.
MaxCalls == 2

\* tempfile.TemporaryDirectory(): the directory's path.
TmpDir == <<"tmp">>
\* os.path.join(tmp, "client-2040.crt")
CertPath == <<"tmp", "client-2040.crt">>
\* os.path.join(tmp, "client-2040.crt") once more, for the key.
KeyPath_AsCert == <<"tmp", "client-2040.crt">>
\* os.path.join(tmp, "client-2040.key")
KeyPath == <<"tmp", "client-2040.key">>

EmptyFs == [p \in {} |-> ""]

NoSession == [certs |-> <<>>, logged_in |-> FALSE]

\* with open(path, mode="w") as file: file.write(content). `how` is what the
\* operating system did: "ok", "open_failed" (no file) or "write_failed" (the
\* file was created and is empty).
WriteFile(f, path, content, how) ==
    CASE how = "ok"           -> [p \in DOMAIN f \cup {path} |-> IF p = path THEN content ELSE f[p]]
      [] how = "write_failed" -> [p \in DOMAIN f \cup {path} |-> IF p = path THEN "" ELSE f[p]]
      [] how = "open_failed"  -> f

\* Removal of the directory only when the block was left without an exception.
Cleanup_OnSuccessOnly(f, failed) == IF failed THEN f ELSE EmptyFs

\* TemporaryDirectory.__exit__: the directory and all it holds are removed,
\* whether the block was left by return or by an exception.
Cleanup(f, failed) == EmptyFs

\* The API operations each kind of session is used for.
ApiOps(v) ==
    IF v = "bot" THEN {"list_market_catalogue"}
    ELSE {"list_current_orders", "list_cleared_orders", "place_orders",
          "get_account_funds", "list_market_catalogue", "list_market_book"}

NoApiCall == [op |-> "", fs |-> EmptyFs]

LoginIdle ==
    /\ variant = "" /\ creds = [certificate |-> "", key |-> ""] /\ lpc = "idle"
    /\ fs = EmptyFs /\ session = NoSession /\ failedAt = "" /\ loginSaw = <<>>
    /\ lastCall = NoApiCall /\ ncalls = 0

\* with tempfile.TemporaryDirectory() as tmp:
EnterTmp ==
    /\ lpc = "called"
    /\ fs' = [p \in {TmpDir} |-> "<dir>"]
    /\ lpc' = "in_tmp"
    /\ UNCHANGED <<variant, creds, session, failedAt, loginSaw, lastCall, ncalls,
                   varsBetting, varsFacade>>

\* The certificate file is written.
WriteCert ==
    /\ lpc = "in_tmp"
    /\ \E how \in {"ok", "open_failed", "write_failed"} :
          /\ fs' = WriteFile(fs, CertPath, creds.certificate, how)
          /\ lpc' = IF how = "ok" THEN "cert_written" ELSE "raising"
          /\ failedAt' = IF how = "ok" THEN "" ELSE "cert"
    /\ UNCHANGED <<variant, creds, session, loginSaw, lastCall, ncalls,
                   varsBetting, varsFacade>>

\* The key file is written.
WriteKey ==
    /\ lpc = "cert_written"
    /\ \E how \in {"ok", "open_failed", "write_failed"} :
          /\ fs' = WriteFile(fs, KeyPath, creds.key, how)
          /\ lpc' = IF how = "ok" THEN "key_written" ELSE "raising"
          /\ failedAt' = IF how = "ok" THEN "" ELSE "key"
    /\ UNCHANGED <<variant, creds, session, loginSaw, lastCall, ncalls,
                   varsBetting, varsFacade>>

\* APIClient(..., certs=tmp) and its login(): the venue accepts or refuses.
ClientLogin ==
    /\ lpc = "key_written"
    /\ loginSaw' = <<fs>>
    /\ \E ok \in BOOLEAN :
          /\ session' = [certs |-> TmpDir, logged_in |-> ok]
          /\ lpc' = IF ok THEN "returning" ELSE "raising"
          /\ failedAt' = IF ok THEN "" ELSE "login"
    /\ UNCHANGED <<variant, creds, fs, lastCall, ncalls, varsBetting, varsFacade>>

\* The with block is left, by return or by the exception, and login ends.
LeaveTmp ==
    /\ lpc \in {"returning", "raising"}
    /\ fs' = Cleanup(fs, lpc = "raising")
    /\ lpc' = IF lpc = "returning" THEN "returned" ELSE "raised"
    /\ UNCHANGED <<variant, creds, session, failedAt, loginSaw, lastCall, ncalls,
                   varsBetting, varsFacade>>

\* The caller (unmatched(), or a method of Betfair) makes an API call on the
\* session login returned.
ApiCall ==
    /\ lpc = "returned"
    /\ ncalls < MaxCalls
    /\ \E op \in ApiOps(variant) : lastCall' = [op |-> op, fs |-> fs]
    /\ ncalls' = ncalls + 1
    /\ UNCHANGED <<variant, creds, lpc, fs, session, failedAt, loginSaw,
                   varsBetting, varsFacade>>

InitLogin ==
    /\ variant \in {"betfair", "bot"}
    /\ creds \in [certificate : {"CERT-A", "CERT-B"}, key : {"KEY-A", "KEY-B"}]
    /\ lpc = "called"
    /\ fs = EmptyFs
    /\ session = NoSession
    /\ failedAt = ""
    /\ loginSaw = <<>>
    /\ lastCall = NoApiCall
    /\ ncalls = 0
    /\ BettingIdle
    /\ FacadeIdle

NextLogin == EnterTmp \/ WriteCert \/ WriteKey \/ ClientLogin \/ LeaveTmp \/ ApiCall


(***************************************************************************)
(* Driving the facade                                                      *)
(***************************************************************************)
CompetitionLists == {<<>>, <<1>>, <<2>>, <<1, 2>>, <<2, 1>>}

BetCalls ==
    [market_id : {"1.101"}, selection_id : {11}, stake : {<<5, 0>>, <<12345, -3>>},
     price : {<<25, -1>>}, option : {"back", "lay"}]

InitFacade ==
    /\ mode \in {"markets", "books", "place_bet"}
    /\ now \in 0..MaxNow
    /\ yielded = <<>>
    /\ pending = <<>>
    /\ last = NoPass
    /\ bstate = "running"
    /\ sent = <<>>
    /\ betResult = NoBetResult
    /\ BettingIdle
    /\ LoginIdle
    /\ CASE mode = "markets" ->
              /\ \E c \in CompetitionLists, n \in {1, MAX_RESULTS_DEFAULT},
                    d \in {1, MAX_DAYS_LEFT_DEFAULT} : gen = markets(c, n, d)
              /\ bet = NoBet
         [] mode = "books" ->
              /\ \E c \in CompetitionLists, n \in {1, MAX_MARKETS_DEFAULT} : gen = books(c, n)
              /\ bet = NoBet
         [] mode = "place_bet" ->
              /\ gen = markets(<<>>, MAX_RESULTS_DEFAULT, MAX_DAYS_LEFT_DEFAULT)
              /\ now = 0
              /\ bet \in BetCalls

NextFacade == MarketsFetch \/ MarketsCheck \/ Tick \/ BooksBody \/ PlaceBet

(***************************************************************************)
(* Specifications                                                          *)
(***************************************************************************)
(***************************************************************************)
(* Inputs of the staking math                                              *)
(***************************************************************************)
Probas    == {<<-1, -1>>, Zero, <<25, -2>>, <<5, -1>>, <<7, -1>>, One, <<15, -1>>}
OddsSet   == {<<5, -1>>, One, <<15, -1>>, <<2, 0>>, <<3, 0>>, <<7, 0>>}
Fractions == {<<-5, -1>>, Zero, <<25, -2>>, <<3, -1>>, <<5, -1>>, One, <<2, 0>>}
Rates     == {<<-5, -2>>, Zero, <<5, -2>>, One, <<2, 0>>}
Stakes    == {Zero, <<5, 0>>, <<125, -1>>, <<1, 2>>}
Options   == {"back", "lay", "BACK", "Lay", "backlay", "draw"}

KellyCalls ==
    [fn : {"kelly_criterion"}, stake : {Zero}, proba : Probas, odds : OddsSet,
     rate : {Zero}, fraction : Fractions, option : {""}]

EvCalls ==
    [fn : {"expected_value"}, stake : Stakes, proba : Probas, odds : OddsSet,
     rate : Rates, fraction : {Zero}, option : Options]

InitBetting ==
    /\ call \in KellyCalls \cup EvCalls
    /\ result = NoResult
    /\ FacadeIdle
    /\ LoginIdle

KellyCriterion ==
    /\ call.fn = "kelly_criterion"
    /\ result = NoResult
    /\ result' = kelly_criterion(call.proba, call.odds, call.fraction)
    /\ UNCHANGED <<call, varsFacade, varsLogin>>

ExpectedValue ==
    /\ call.fn = "expected_value"
    /\ result = NoResult
    /\ result' = expected_value(call.stake, call.proba, call.odds, call.rate, call.option)
    /\ UNCHANGED <<call, varsFacade, varsLogin>>

NextBetting == KellyCriterion \/ ExpectedValue

vars == <<varsBetting, varsFacade, varsLogin>>

SpecBetting == InitBetting /\ [][NextBetting]_vars

SpecFacade == InitFacade /\ [][NextFacade]_vars

SpecLogin == InitLogin /\ [][NextLogin]_vars


(***************************************************************************)
(* Claims about the staking math, under SpecBetting                         *)
(***************************************************************************)
KellyRan == call.fn = "kelly_criterion" /\ result # NoResult
EvRan    == call.fn = "expected_value" /\ result # NoResult

InUnit(x) == FLe(Zero, x) /\ FLe(x, One)

KellyInDomain == InUnit(call.proba) /\ FGt(call.odds, One) /\ InUnit(call.fraction)

\* C1: kelly_criterion fails with an invalid-input error (ValueError) if and
\* only if proba < 0, proba > 1, odds <= 1, fraction < 0 or fraction > 1; for
\* every other input it returns a value and raises nothing.
C1_KellyRaisesIffOutOfDomain ==
    KellyRan =>
        /\ result.exc = "ValueError" <=>
              \/ FLt(call.proba, Zero) \/ FGt(call.proba, One)
              \/ FLe(call.odds, One)
              \/ FLt(call.fraction, Zero) \/ FGt(call.fraction, One)
        /\ result.exc \in {"ValueError", "none"}

\* C1 witness: a call whose only fault is proba > 1 has been rejected.
C1_Witness ==
    /\ KellyRan
    /\ FGt(call.proba, One) /\ FGt(call.odds, One) /\ InUnit(call.fraction)
    /\ result.exc = "ValueError"

\* f * kelly_criterion(p, o, 1), as the caller would compute it.
ScaledFullKelly ==
    FMul(call.fraction, kelly_criterion(call.proba, call.odds, One).value)

\* |a - b| <= 5 * u * |b| with u = 10^(1 - Digits) / 2 the unit roundoff,
\* compared exactly.
WithinRounding(a, b) ==
    LET e == Min(a[2], b[2])
    IN  Abs(Aligned(a, e) - Aligned(b, e)) * Pow10(Digits) <= 25 * Abs(Aligned(b, e))

\* C2 (as claimed): for p in [0,1], o > 1, f in [0,1], kelly_criterion(p, o, f)
\* == f * kelly_criterion(p, o, 1), exactly.
C2_KellyExactlyLinear ==
    (KellyRan /\ KellyInDomain) => result.value = ScaledFullKelly

\* C2 (amended): for p in [0,1], o > 1, f in [0,1], kelly_criterion(p, o, f)
\* is (f * (o*p - (1-p))) / o with every operation rounded, and it agrees with
\* f * kelly_criterion(p, o, 1) up to rounding (relative error at most 5 unit
\* roundoffs), exactly so when f is 0 or 1.
C2_KellyLinearUpToRounding ==
    (KellyRan /\ KellyInDomain) =>
        /\ result.exc = "none"
        /\ result.value =
              FDiv(FMul(call.fraction,
                        FSub(FMul(call.odds, call.proba), FSub(One, call.proba))),
                   call.odds)
        /\ WithinRounding(result.value, ScaledFullKelly)
        /\ call.fraction \in {Zero, One} => result.value = ScaledFullKelly

\* C2 witness: an in-domain call with 0 < f < 1 returned a non-zero value that
\* differs from f * kelly_criterion(p, o, 1) in the last digit.
C2_Witness ==
    /\ KellyRan /\ KellyInDomain
    /\ call.fraction \notin {Zero, One}
    /\ result.value # Zero
    /\ result.value # ScaledFullKelly

EvInDomain ==
    /\ call.option \in {"back", "lay"}
    /\ FGt(call.odds, One)
    /\ InUnit(call.rate)
    /\ InUnit(call.proba)

\* C3: expected_value fails with an invalid-input error whenever option is not
\* 'back' or 'lay', odds <= 1, rate is outside [0,1] or proba is outside [0,1];
\* it returns a value exactly when all four are in domain.
C3_EvRaisesOutOfDomain ==
    EvRan =>
        /\ ~EvInDomain => result.exc = "ValueError"
        /\ EvInDomain => result.exc = "none"

\* C3 witness: a call whose only fault is proba outside [0,1] (caught by _ev)
\* has been rejected.
C3_Witness ==
    /\ EvRan
    /\ call.option \in {"back", "lay"} /\ FGt(call.odds, One) /\ InUnit(call.rate)
    /\ ~InUnit(call.proba)
    /\ result.exc = "ValueError"

C4_Profit ==
    IF call.option = "back"
    THEN FMul(FMul(call.stake, FSub(call.odds, One)), FSub(One, call.rate))
    ELSE FMul(call.stake, FSub(One, call.rate))

C4_Loss ==
    IF call.option = "back" THEN call.stake ELSE FMul(call.stake, FSub(call.odds, One))

C4_Example ==
    /\ call.stake = <<1, 2>> /\ call.proba = <<5, -1>>
    /\ call.odds = <<2, 0>> /\ call.rate = <<5, -2>>

\* C4: for in-domain inputs expected_value returns proba*profit - (1-proba)*loss
\* with, for 'back', profit = stake*(odds-1)*(1-rate) and loss = stake, and for
\* 'lay', profit = stake*(1-rate) and loss = stake*(odds-1); stake=100,
\* proba=0.5, odds=2, rate=0.05 gives -2.5 for both sides.
C4_EvFormula ==
    (EvRan /\ EvInDomain) =>
        /\ result.value =
              FSub(FMul(call.proba, C4_Profit), FMul(FSub(One, call.proba), C4_Loss))
        /\ C4_Example => result.value = <<-25, -1>>

\* C4 witness: the lay call of the example has returned -2.5.
C4_Witness ==
    /\ EvRan /\ C4_Example /\ call.option = "lay"
    /\ result = Return(<<-25, -1>>)


(***************************************************************************)
(* Claims about the API wrapper, under SpecFacade                           *)
(***************************************************************************)
BetPlaced == mode = "place_bet" /\ betResult # NoBetResult

\* C5: place_bet fails with an error carrying the venue's error code whenever
\* the response status is FAILURE, returning no record; it returns a record
\* only when the venue does not report failure, and then bet_id, placed date
\* and status are those of the first instruction report.
C5_PlaceBetRejectsFailure ==
    BetPlaced =>
        LET res == sent[1].response
        IN  /\ Len(sent) = 1
            /\ res.status = "FAILURE" =>
                  /\ betResult.exc = "ValueError"
                  /\ betResult.msg = <<"FAILURE", res.error_code>>
                  /\ betResult.record = NoRecord
            /\ betResult.exc = "none" =>
                  /\ res.status # "FAILURE"
                  /\ res.place_instruction_reports # <<>>
                  /\ betResult.record.bet_id = res.place_instruction_reports[1].bet_id
                  /\ betResult.record.placed_date =
                        IsoFormat(res.place_instruction_reports[1].placed_date)
                  /\ betResult.record.status = res.place_instruction_reports[1].status
            /\ betResult.exc # "none" => betResult.record = NoRecord

\* C5 witness: the venue answered FAILURE with an error code and a report, and
\* place_bet raised.
C5_Witness ==
    /\ BetPlaced
    /\ sent[1].response.status = "FAILURE"
    /\ sent[1].response.error_code = "INSUFFICIENT_FUNDS"
    /\ sent[1].response.place_instruction_reports # <<>>
    /\ betResult.exc = "ValueError"

BookClosed(resp) == resp # <<>> /\ (resp[1].status # "OPEN" \/ resp[1].inplay)

\* C6: every batch books() yields belongs to a market whose book was OPEN and
\* not in-play when fetched; a suspended, closed or in-play market yields no
\* entries and the enumeration goes on to the next market.
C6_BooksOnlyOpenNotInplay ==
    last # NoPass =>
        /\ last.outcome = "yield" =>
              /\ last.book # <<>>
              /\ last.book[1].status = "OPEN" /\ ~last.book[1].inplay
              /\ last.entries # <<>>
              /\ \A i \in 1..Len(last.entries) :
                    last.entries[i].market_id = last.market.market_id
        /\ BookClosed(last.book) =>
              /\ last.outcome = "continue"
              /\ last.entries = <<>>
              /\ bstate = "running"

\* C6 witness: a suspended market with offers on both sides was skipped and
\* the catalogue has a further market to go on with.
C6_Witness ==
    /\ last # NoPass
    /\ last.book # <<>>
    /\ last.book[1].status = "SUSPENDED"
    /\ last.book[1].runners[1].available_to_back # <<>>
    /\ last.book[1].runners[1].available_to_lay # <<>>
    /\ last.outcome = "continue"
    /\ gen.mi < Len(gen.cat)

Requested == { gen.comps[i] : i \in 1..Len(gen.comps) }

\* C7: every market yielded by markets(competition_ids, max_results,
\* max_days_left) is a MATCH_ODDS market of a requested competition whose
\* start is no later than max_days_left days after the time of the check (and
\* so of any later time); the same holds, with the default of 7 days, for the
\* markets books() pulls.
C7_MarketsWithinHorizon ==
    /\ yielded # <<>> =>
          LET y == yielded[1]
          IN  /\ y.mkt.type = "MATCH_ODDS"
              /\ y.item.competition_id \in Requested
              /\ y.item.market_id = y.mkt.market_id
              /\ y.mkt.market_time <= y.at + gen.days
              /\ y.mkt.market_time <= now + gen.days
    /\ mode = "books" =>
          /\ gen.days = MAX_DAYS_LEFT_DEFAULT
          /\ pending # <<>> => yielded # <<>> /\ pending[1] = yielded[1].item

\* C7 witness: books() has pulled a market that starts exactly max_days_left
\* days after the time of its check.
C7_Witness ==
    /\ mode = "books"
    /\ pending # <<>>
    /\ pending[1].market_time = yielded[1].at + gen.days


(***************************************************************************)
(* Claims about login, under SpecLogin                                      *)
(***************************************************************************)
LoginEnded == lpc \in {"returned", "raised"}

\* The directory exists and holds a certificate file and a key file.
CertsOnDisk(f) ==
    /\ <<"tmp">> \in DOMAIN f
    /\ <<"tmp", "client-2040.crt">> \in DOMAIN f
    /\ <<"tmp", "client-2040.key">> \in DOMAIN f

\* C8: on every exit path of login (normal return, a failure writing the
\* certificate or the key file, a failure of the API login call) the temporary
\* directory with the certificate and key files no longer exists once login
\* has returned or raised.
C8_NoCredentialsLeftOnDisk ==
    LoginEnded => DOMAIN fs = {}

\* C8 witness: the API login call failed with both files on disk, login has
\* raised and the directory is gone.
C8_Witness ==
    /\ lpc = "raised"
    /\ failedAt = "login"
    /\ loginSaw # <<>> /\ CertsOnDisk(loginSaw[1])
    /\ DOMAIN fs = {}

\* C9 (as claimed): at every API call made on the session login returned, the
\* certs directory it was configured with still exists and holds both files.
C9_CertsOnDiskWhenSessionUsed ==
    ncalls > 0 => session.certs \in DOMAIN lastCall.fs /\ CertsOnDisk(lastCall.fs)

\* C9 (amended): the certificate and key files exist, with the contents given,
\* when the API login request is made inside login; the directory is removed
\* as login returns, so at every later API call on the returned session the
\* certs directory it was configured with no longer exists.
C9_CertsOnDiskOnlyDuringLogin ==
    /\ loginSaw # <<>> =>
          /\ CertsOnDisk(loginSaw[1])
          /\ loginSaw[1][<<"tmp", "client-2040.crt">>] = creds.certificate
          /\ loginSaw[1][<<"tmp", "client-2040.key">>] = creds.key
          /\ session.certs \in DOMAIN loginSaw[1]
    /\ ncalls > 0 =>
          /\ session.logged_in
          /\ session.certs \notin DOMAIN lastCall.fs
          /\ ~CertsOnDisk(lastCall.fs)

\* C9 witness: unmatched() has called list_market_catalogue on the client that
\* bot.login returned, after a login request that saw both files.
C9_Witness ==
    /\ variant = "bot"
    /\ ncalls > 0
    /\ lastCall.op = "list_market_catalogue"
    /\ loginSaw # <<>> /\ CertsOnDisk(loginSaw[1])
    /\ session.certs \notin DOMAIN fs


(***************************************************************************)
(* Claims about failures and offers in books(), under SpecFacade           *)
(***************************************************************************)
\* Pass l of the loop body got a book that is open, not in-play.
OpenBook(l) ==
    /\ l # NoPass /\ ~l.raised /\ l.book # <<>>
    /\ l.book[1].status = "OPEN" /\ ~l.book[1].inplay

\* No runner of the book of pass l has any offer, to back or to lay.
NoOffers(l) ==
    /\ OpenBook(l)
    /\ \A i \in 1..Len(l.book[1].runners) :
          /\ l.book[1].runners[i].available_to_back = <<>>
          /\ l.book[1].runners[i].available_to_lay = <<>>

\* The venue failed on the market of pass l: the call raised, or gave no book.
VenueFailed(l) == l # NoPass /\ (l.raised \/ l.book = <<>>)

\* C11 (as claimed): a failure of list_market_book for one market (the call
\* failing, or no book returned) does not abort the enumeration: the market is
\* skipped and books() goes on; a market with no offers is skipped without
\* error.
C11_VenueFailureSkipsMarket ==
    /\ VenueFailed(last) =>
          /\ last.outcome \in {"continue", "empty"}
          /\ bstate = "running"
    /\ NoOffers(last) => last.outcome = "empty" /\ bstate = "running"

\* What pass l must have done, leaving the generator in state b.
C11_PassOutcome(l, b) ==
    /\ (l # NoPass /\ l.raised) =>
          l.outcome = "APIError" /\ l.entries = <<>> /\ b = "error"
    /\ (l # NoPass /\ ~l.raised /\ l.book = <<>>) =>
          l.outcome = "IndexError" /\ l.entries = <<>> /\ b = "error"
    /\ NoOffers(l) => l.outcome = "empty" /\ l.entries = <<>> /\ b = "running"

\* C11 (amended): a failure of list_market_book for one market (the call
\* raising, or no book returned) raises out of books() and ends the
\* enumeration: that market yields nothing and no later market is pulled or
\* yielded; a market none of whose runners has an offer is skipped without
\* error.
C11_VenueFailureEndsEnumeration ==
    [][/\ C11_PassOutcome(last', bstate')
       /\ bstate = "error" =>
             /\ bstate' = "error"
             /\ last' = last
             /\ pending' = pending
             /\ yielded' = yielded
             /\ gen' = gen]_vars

\* C11 witness: the venue returned no book for a market, books() has raised
\* and the catalogue still holds a market that will not be visited.
C11_Witness ==
    /\ VenueFailed(last) /\ ~last.raised
    /\ bstate = "error"
    /\ gen.mi < Len(gen.cat)

\* The positions in the batch of pass l of runner r's entries on one side.
EntriesOf(l, r, option) ==
    { k \in 1..Len(l.entries) :
        l.entries[k].selection_id = r.selection_id /\ l.entries[k].option = option }

\* Runner r's side is emitted in pass l exactly when it has an offer, with the
\* price and size of the first offer.
EmitsBest(l, r, option, offers) ==
    IF offers = <<>> THEN EntriesOf(l, r, option) = {}
    ELSE /\ Cardinality(EntriesOf(l, r, option)) = 1
         /\ \A k \in EntriesOf(l, r, option) :
               l.entries[k].price = offers[1].price /\ l.entries[k].size = offers[1].size

\* C12: for every runner of an open, not-in-play market and any combination of
\* empty or non-empty back and lay offer lists, books() completes without
\* error and emits a 'back' entry exactly when the runner has an offer to
\* back, with the price and size of the first one, and a 'lay' entry exactly
\* when it has an offer to lay, with the price and size of the first one.
C12_BooksEmitsBestOffers ==
    OpenBook(last) =>
        /\ last.outcome \in {"yield", "empty"}
        /\ bstate = "running"
        /\ \A i \in 1..Len(last.book[1].runners) :
              LET r == last.book[1].runners[i]
              IN  /\ EmitsBest(last, r, "back", r.available_to_back)
                  /\ EmitsBest(last, r, "lay", r.available_to_lay)

=============================================================================
